---- MODULE Spec2Model ----
(***************************************************************************)
(* functional-paint: canvases are records {width, height, hasAlphaChannel, *)
(* data}; data is a reference to a JavaScript array object.  Every drawing *)
(* operation clones its input canvas and writes into the clone.            *)
(*                                                                         *)
(* The heap is modelled explicitly: `heap` is the sequence of array        *)
(* objects allocated so far, a canvas holds the index of its array, and    *)
(* `canvases` are the canvas values the caller holds.  calls[k] records the *)
(* library call that returned canvases[k], and `before` is the heap as it  *)
(* was when the last call started.  The operations are pure functions of   *)
(* the heap and their arguments: the caller starts with two canvases it    *)
(* created (a destination and a source) and then makes a library call.     *)
(***************************************************************************)
EXTENDS Integers, Sequences, FiniteSets, TLC

VARIABLES heap, canvases, calls, before

vars == <<heap, canvases, calls, before>>

(***************************************************************************)
(* constants.js, as imported by index.js                                   *)
(***************************************************************************)
CHANNEL_RED == 0
CHANNEL_GREEN == 1
CHANNEL_BLUE == 2
CHANNEL_ALPHA == 3
RGB == 3
RGBA == 4

\* JavaScript's `undefined` and NaN, kept apart from the byte values 0..255.
undefined == -1
NaN == -2

(***************************************************************************)
(* Bounds of the model.                                                    *)
(***************************************************************************)
MaxCoord == 1
MaxSize == 2

Dims == {<<1, 2>>, <<2, 1>>, <<2, 2>>}
Coords == (0 - 1) .. MaxCoord
Sizes == 1 .. MaxSize
Offsets == (0 - 1) .. MaxCoord

ColorX == <<255, 0, 0>>
ColorB == <<0, 0, 255>>
ColorG == <<0, 255, 0>>
\* colors handed to the drawing operations: without alpha, with alpha 0,
\* with alpha 255
Colors == {ColorX, <<0, 0, 255, 0>>, <<0, 255, 0, 255>>}
RGBColors == {ColorX, ColorB, ColorG}

(***************************************************************************)
(* JavaScript arrays: a length and the assigned keys.  A read of a key     *)
(* that was never assigned gives undefined; a write at or past the length  *)
(* extends the array; a write at a negative key adds a property and leaves *)
(* the length alone.                                                       *)
(***************************************************************************)
Get(a, i) == IF i \in DOMAIN a.el THEN a.el[i] ELSE undefined

Set(a, i, v) ==
  [length |-> IF i >= a.length THEN i + 1 ELSE a.length,
   el |-> [k \in (DOMAIN a.el) \cup {i} |-> IF k = i THEN v ELSE a.el[k]]]

\* [...imageBuffer]: a new array of the elements 0 .. length-1
Spread(a) == [length |-> a.length, el |-> [k \in 0 .. (a.length - 1) |-> Get(a, k)]]

\* new Uint8Array(n).fill(0x00)
ZeroFilled(n) == [length |-> n, el |-> [k \in 0 .. (n - 1) |-> 0]]

\* color[i] of a color given as a sequence
ColorAt(color, i) == IF (i + 1) \in DOMAIN color THEN color[i + 1] ELSE undefined

(***************************************************************************)
(* utils.js                                                                *)
(***************************************************************************)
getChannelCount(hasAlphaChannel) == IF hasAlphaChannel THEN RGBA ELSE RGB

coordinates2bytePosition(canvas, x, y) ==
  (y * canvas.width + x) * getChannelCount(canvas.hasAlphaChannel)

isDefined(v) == v # undefined

IsNumber(v) == v >= 0

\* Math.round(num / den) for num >= 0, den > 0
RoundDiv(num, den) == (2 * num + den) \div (2 * den)

Clamp(v) == IF v > 255 THEN 255 ELSE IF v < 0 THEN 0 ELSE v

\* result = srcAlpha + destAlpha * (255 - srcAlpha) / 255, rounded, clamped
mergeAlpha(destAlpha, srcAlpha) ==
  IF ~(IsNumber(destAlpha) /\ IsNumber(srcAlpha)) THEN NaN
  ELSE Clamp(RoundDiv(255 * srcAlpha + destAlpha * (255 - srcAlpha), 255))

\* source-over compositing of one channel, normalised by the composite
\* alpha; 0 when the composite alpha is 0
blendChannel(destChannel, srcChannel, destAlpha, srcAlpha) ==
  IF ~(IsNumber(destChannel) /\ IsNumber(srcChannel)
       /\ IsNumber(destAlpha) /\ IsNumber(srcAlpha)) THEN NaN
  ELSE LET alpha == mergeAlpha(destAlpha, srcAlpha)
       IN IF alpha = 0 THEN 0
          ELSE Clamp(RoundDiv(255 * srcChannel * srcAlpha
                              + destChannel * destAlpha * (255 - srcAlpha),
                              255 * alpha))

mergeColors(dest, src) ==
  <<blendChannel(dest[1], src[1], dest[4], src[4]),
    blendChannel(dest[2], src[2], dest[4], src[4]),
    blendChannel(dest[3], src[3], dest[4], src[4]),
    mergeAlpha(dest[4], src[4])>>

\* the pixels forEachPixel visits, in row-major order: <<x, y, bytePos>>
PixelAt(canvas, k) ==
  LET x == k % canvas.width
      y == k \div canvas.width
  IN <<x, y, coordinates2bytePosition(canvas, x, y)>>

PixelCount(canvas) == canvas.width * canvas.height

(***************************************************************************)
(* index.js.  Every operation takes the heap and returns the heap after    *)
(* it together with the canvas it returns.                                 *)
(***************************************************************************)
Alloc(h, a) == Append(h, a)

createCanvas(h, width, height, hasAlphaChannel) ==
  LET channels == IF hasAlphaChannel THEN RGBA ELSE RGB
  IN [heap |-> Alloc(h, ZeroFilled(width * height * channels)),
      canvas |-> [width |-> width, height |-> height,
                  hasAlphaChannel |-> hasAlphaChannel,
                  data |-> Len(h) + 1]]

\* imageBuffer is the array object handed in; height is always passed
createCanvasFromImageBuffer(h, imageBuffer, width, height, hasAlphaChannel) ==
  LET r == createCanvas(h, width, height, hasAlphaChannel)
  IN [heap |-> Alloc(r.heap, Spread(imageBuffer)),
      canvas |-> [r.canvas EXCEPT !.data = Len(r.heap) + 1]]

\* cloneCanvas as it would be if it handed the input's array on uncopied
cloneCanvasShared(h, canvas) == [heap |-> h, canvas |-> canvas]

cloneCanvas(h, canvas) ==
  createCanvasFromImageBuffer(h, h[canvas.data], canvas.width, canvas.height,
                              canvas.hasAlphaChannel)

\* isEqualColor as it would be if it compared the red channel only
isEqualColorRedOnly(color1, color2) ==
  ColorAt(color1, CHANNEL_RED) = ColorAt(color2, CHANNEL_RED)

isEqualColor(color1, color2) ==
  /\ ColorAt(color1, CHANNEL_RED) = ColorAt(color2, CHANNEL_RED)
  /\ ColorAt(color1, CHANNEL_GREEN) = ColorAt(color2, CHANNEL_GREEN)
  /\ ColorAt(color1, CHANNEL_BLUE) = ColorAt(color2, CHANNEL_BLUE)

\* workingCanvas.data[pos] = v
Write(h, canvas, pos, v) == [h EXCEPT ![canvas.data] = Set(@, pos, v)]

\* [data[bytePos + RED], data[bytePos + GREEN], data[bytePos + BLUE]] = color
WriteRGB(h, canvas, bytePos, color) ==
  Write(Write(Write(h, canvas, bytePos + CHANNEL_RED, ColorAt(color, 0)),
              canvas, bytePos + CHANNEL_GREEN, ColorAt(color, 1)),
        canvas, bytePos + CHANNEL_BLUE, ColorAt(color, 2))

getColor(h, canvas, x, y) ==
  LET bytePos == coordinates2bytePosition(canvas, x, y)
      color == <<Get(h[canvas.data], bytePos + CHANNEL_RED),
                 Get(h[canvas.data], bytePos + CHANNEL_GREEN),
                 Get(h[canvas.data], bytePos + CHANNEL_BLUE)>>
  IN IF canvas.hasAlphaChannel
     THEN Append(color, Get(h[canvas.data], bytePos + CHANNEL_ALPHA))
     ELSE color

drawPixel(h, canvas, x, y, color) ==
  LET c == cloneCanvas(h, canvas)
      workingCanvas == c.canvas
      bytePos == coordinates2bytePosition(canvas, x, y)
      h1 == WriteRGB(c.heap, workingCanvas, bytePos, color)
      \* color[CHANNEL_ALPHA] is tested for truthiness: undefined and 0 fail
      h2 == IF ColorAt(color, CHANNEL_ALPHA) # undefined
               /\ ColorAt(color, CHANNEL_ALPHA) # 0
               /\ canvas.hasAlphaChannel
            THEN Write(h1, workingCanvas, bytePos + CHANNEL_ALPHA,
                       ColorAt(color, CHANNEL_ALPHA))
            ELSE h1
  IN [heap |-> h2, canvas |-> workingCanvas]

\* the body of drawRect's inner loop for the k-th pair (i, j), i outer
RECURSIVE drawRectLoop(_, _, _, _, _, _, _, _, _)
drawRectLoop(h, canvas, workingCanvas, x, y, width, height, color, k) ==
  IF k >= width * height THEN h
  ELSE LET i == x + (k \div height)
           j == y + (k % height)
           bytePos == coordinates2bytePosition(canvas, i, j)
           h1 == WriteRGB(h, workingCanvas, bytePos, color)
           h2 == IF canvas.hasAlphaChannel
                 THEN Write(h1, workingCanvas, bytePos + CHANNEL_ALPHA,
                            IF isDefined(ColorAt(color, CHANNEL_ALPHA))
                            THEN ColorAt(color, CHANNEL_ALPHA) ELSE 255)
                 ELSE h1
       IN drawRectLoop(h2, canvas, workingCanvas, x, y, width, height, color, k + 1)

drawRect(h, canvas, x, y, width, height, color) ==
  LET c == cloneCanvas(h, canvas)
  IN [heap |-> IF width <= 0 \/ height <= 0 THEN c.heap
               ELSE drawRectLoop(c.heap, canvas, c.canvas, x, y, width, height, color, 0),
      canvas |-> c.canvas]

\* the callback drawCanvas hands to forEachPixel, for source pixel (x, y)
drawCanvasPixel(h, destination, source, workingCanvas, offsetX, offsetY, x, y, bytePos) ==
  LET destBytePos == coordinates2bytePosition(destination, x + offsetX, y + offsetY)
      dd == h[destination.data]
      sd == h[source.data]
  IN IF Get(dd, destBytePos) = undefined THEN h
     ELSE LET merged == mergeColors(
                <<Get(dd, destBytePos + CHANNEL_RED),
                  Get(dd, destBytePos + CHANNEL_GREEN),
                  Get(dd, destBytePos + CHANNEL_BLUE),
                  IF destination.hasAlphaChannel
                  THEN Get(dd, destBytePos + CHANNEL_ALPHA) ELSE 255>>,
                <<Get(sd, bytePos + CHANNEL_RED),
                  Get(sd, bytePos + CHANNEL_GREEN),
                  Get(sd, bytePos + CHANNEL_BLUE),
                  \* the source's alpha is read at destBytePos, not bytePos
                  IF source.hasAlphaChannel
                  THEN Get(sd, destBytePos + CHANNEL_ALPHA) ELSE 255>>)
              h1 == WriteRGB(h, workingCanvas, destBytePos, merged)
          IN IF destination.hasAlphaChannel /\ source.hasAlphaChannel
             THEN Write(h1, workingCanvas, destBytePos + CHANNEL_ALPHA,
                        mergeAlpha(Get(h1[destination.data], destBytePos + CHANNEL_ALPHA),
                                   Get(h1[source.data], bytePos + CHANNEL_ALPHA)))
             ELSE h1

RECURSIVE drawCanvasLoop(_, _, _, _, _, _, _)
drawCanvasLoop(h, destination, source, workingCanvas, offsetX, offsetY, k) ==
  IF k >= PixelCount(source) THEN h
  ELSE LET p == PixelAt(source, k)
       IN drawCanvasLoop(
            drawCanvasPixel(h, destination, source, workingCanvas,
                            offsetX, offsetY, p[1], p[2], p[3]),
            destination, source, workingCanvas, offsetX, offsetY, k + 1)

drawCanvas(h, destination, source, offsetX, offsetY) ==
  LET c == cloneCanvas(h, destination)
  IN [heap |-> drawCanvasLoop(c.heap, destination, source, c.canvas, offsetX, offsetY, 0),
      canvas |-> c.canvas]

RECURSIVE replaceColorLoop(_, _, _, _, _, _)
replaceColorLoop(h, canvas, workingCanvas, replacee, replacer, k) ==
  IF k >= PixelCount(canvas) THEN h
  ELSE LET p == PixelAt(canvas, k)
           h1 == IF isEqualColor(getColor(h, canvas, p[1], p[2]), replacee)
                 THEN WriteRGB(h, workingCanvas, p[3], replacer)
                 ELSE h
       IN replaceColorLoop(h1, canvas, workingCanvas, replacee, replacer, k + 1)

replaceColor(h, canvas, replacee, replacer) ==
  LET c == cloneCanvas(h, canvas)
  IN [heap |-> replaceColorLoop(c.heap, canvas, c.canvas, replacee, replacer, 0),
      canvas |-> c.canvas]

(***************************************************************************)
(* The image buffers a caller hands to createCanvasFromImageBuffer: n      *)
(* pixels of ch channels each, colored by one of a few patterns.           *)
(***************************************************************************)
PatternPixel(pattern, k) ==
  CASE pattern = "XB" -> IF k % 2 = 0 THEN <<255, 0, 0, 255>> ELSE <<0, 0, 255, 255>>
    [] pattern = "BX" -> IF k % 2 = 0 THEN <<0, 0, 255, 0>> ELSE <<255, 0, 0, 255>>
    [] OTHER -> <<255, 0, 0, 255>>

Patterns == {"XB", "BX", "XX"}

ImageBuffer(pattern, n, ch) ==
  [length |-> n * ch,
   el |-> [i \in 0 .. (n * ch - 1) |-> PatternPixel(pattern, i \div ch)[(i % ch) + 1]]]

PixelCounts == {2, 4}

ImageBuffers ==
  {ImageBuffer(pattern, n, ch) : pattern \in Patterns, n \in PixelCounts, ch \in {RGB, RGBA}}

(***************************************************************************)
(* The state machine.  Initially the caller holds two canvases, each       *)
(* returned by createCanvas or by createCanvasFromImageBuffer on a buffer  *)
(* of the matching size; then it makes one library call on them and keeps  *)
(* the canvas returned.                                                    *)
(***************************************************************************)
CreateCanvasCalls ==
  {[op |-> "createCanvas", width |-> d[1], height |-> d[2], hasAlphaChannel |-> a] :
     d \in Dims, a \in BOOLEAN}

CreateCanvasFromImageBufferCalls ==
  {[op |-> "createCanvasFromImageBuffer", imageBuffer |-> b,
    width |-> d[1], height |-> d[2], hasAlphaChannel |-> a] :
     b \in ImageBuffers, d \in Dims, a \in BOOLEAN}

Matches(c) ==
  c.imageBuffer.length = c.width * c.height * getChannelCount(c.hasAlphaChannel)

InputCalls ==
  CreateCanvasCalls \cup {c \in CreateCanvasFromImageBufferCalls : Matches(c)}

Create(h, c) ==
  IF c.op = "createCanvas"
  THEN createCanvas(h, c.width, c.height, c.hasAlphaChannel)
  ELSE createCanvasFromImageBuffer(h, c.imageBuffer, c.width, c.height,
                                   c.hasAlphaChannel)

Init ==
  \E c1 \in InputCalls, c2 \in InputCalls :
    LET r1 == Create(<< >>, c1)
        r2 == Create(r1.heap, c2)
    IN /\ heap = r2.heap
       /\ canvases = <<r1.canvas, r2.canvas>>
       /\ calls = <<c1, c2>>
       /\ before = r1.heap

Return(r, c) ==
  /\ before' = heap
  /\ heap' = r.heap
  /\ canvases' = Append(canvases, r.canvas)
  /\ calls' = Append(calls, c)

CreateCanvas ==
  /\ Len(canvases) = 2
  /\ \E c \in CreateCanvasCalls : Return(Create(heap, c), c)

CreateCanvasFromImageBuffer ==
  /\ Len(canvases) = 2
  /\ \E c \in CreateCanvasFromImageBufferCalls : Return(Create(heap, c), c)

CloneCanvas ==
  /\ Len(canvases) = 2
  /\ \E i \in DOMAIN canvases :
       Return(cloneCanvas(heap, canvases[i]), [op |-> "cloneCanvas", canvas |-> i])

DrawPixel ==
  /\ Len(canvases) = 2
  /\ \E i \in DOMAIN canvases, x \in Coords, y \in Coords, color \in Colors :
       Return(drawPixel(heap, canvases[i], x, y, color),
              [op |-> "drawPixel", canvas |-> i, x |-> x, y |-> y, color |-> color])

DrawRect ==
  /\ Len(canvases) = 2
  /\ \E i \in DOMAIN canvases, x \in Coords, y \in Coords,
        w \in Sizes, h \in Sizes, color \in Colors :
       Return(drawRect(heap, canvases[i], x, y, w, h, color),
              [op |-> "drawRect", canvas |-> i, x |-> x, y |-> y,
               width |-> w, height |-> h, color |-> color])

DrawCanvas ==
  /\ Len(canvases) = 2
  /\ \E i \in DOMAIN canvases, j \in DOMAIN canvases, ox \in Offsets, oy \in Offsets :
       Return(drawCanvas(heap, canvases[i], canvases[j], ox, oy),
              [op |-> "drawCanvas", canvas |-> i, source |-> j,
               offsetX |-> ox, offsetY |-> oy])

ReplaceColor ==
  /\ Len(canvases) = 2
  /\ \E i \in DOMAIN canvases, replacee \in RGBColors, replacer \in RGBColors :
       Return(replaceColor(heap, canvases[i], replacee, replacer),
              [op |-> "replaceColor", canvas |-> i,
               replacee |-> replacee, replacer |-> replacer])

Next ==
  \/ CreateCanvas
  \/ CreateCanvasFromImageBuffer
  \/ CloneCanvas
  \/ DrawRect
  \/ DrawPixel
  \/ DrawCanvas
  \/ ReplaceColor

Spec == Init /\ [][Next]_vars

(***************************************************************************)
(* What the claims speak of.                                               *)
(***************************************************************************)
DrawingOps == {"drawPixel", "drawRect", "drawCanvas", "replaceColor"}

\* the last call, the canvas it was made on and the canvas it returned
Called(op) == Len(calls) = 3 /\ calls[3].op = op
input == canvases[calls[3].canvas]
result == canvases[3]

Xs(canvas) == 0 .. (canvas.width - 1)
Ys(canvas) == 0 .. (canvas.height - 1)

RGBOf(color) == <<ColorAt(color, 0), ColorAt(color, 1), ColorAt(color, 2)>>

\* data.length = width * height * channels
SizeOk(h, canvas) ==
  h[canvas.data].length
    = canvas.width * canvas.height * getChannelCount(canvas.hasAlphaChannel)

\* C1: drawPixel, drawRect, drawCanvas and replaceColor leave every array
\* that existed before the call (the input canvases' data among them) as it
\* was, byte for byte, leave the input canvases' width, height and
\* hasAlphaChannel as created, and return a canvas whose data is an array
\* of its own, shared with no input canvas.
C1_InputsUntouched ==
  (Len(calls) = 3 /\ calls[3].op \in DrawingOps) =>
    /\ \A b \in DOMAIN before : heap[b] = before[b]
    /\ \A k \in 1 .. 2 :
         /\ canvases[k].width = calls[k].width
         /\ canvases[k].height = calls[k].height
         /\ canvases[k].hasAlphaChannel = calls[k].hasAlphaChannel
         /\ canvases[k].data \in DOMAIN before
         /\ canvases[3].data # canvases[k].data
    /\ canvases[3].data \notin DOMAIN before

\* a drawCanvas call with a source other than its destination returned a
\* canvas that differs from the destination at a pixel
C1_Witness ==
  /\ Called("drawCanvas")
  /\ calls[3].source # calls[3].canvas
  /\ \E i \in Xs(input), j \in Ys(input) :
       getColor(heap, result, i, j) # getColor(heap, input, i, j)

\* C2: a canvas returned by cloneCanvas or a drawing operation on canvases
\* made by createCanvas has data.length = width * height * channels.
C2_BufferSize ==
  (/\ Len(calls) = 3
   /\ calls[3].op \in DrawingOps \cup {"cloneCanvas"}
   /\ calls[calls[3].canvas].op = "createCanvas"
   /\ calls[3].op = "drawCanvas" => calls[calls[3].source].op = "createCanvas")
  => SizeOk(heap, result)

\* C3: after drawRect every in-canvas pixel inside the rectangle has the
\* fill color (alpha color[3] if given, else 255, on a canvas with alpha)
\* and every in-canvas pixel outside the rectangle has its color of before.
C3_DrawRect ==
  Called("drawRect") =>
    LET c == calls[3]
    IN \A i \in Xs(input), j \in Ys(input) :
         IF c.x <= i /\ i < c.x + c.width /\ c.y <= j /\ j < c.y + c.height
         THEN getColor(heap, result, i, j)
                = IF input.hasAlphaChannel
                  THEN Append(RGBOf(c.color),
                              IF Len(c.color) = 4 THEN c.color[4] ELSE 255)
                  ELSE RGBOf(c.color)
         ELSE getColor(heap, result, i, j) = getColor(before, input, i, j)

source == canvases[calls[3].source]

\* every pixel of the canvas is opaque
Opaque(h, canvas) ==
  canvas.hasAlphaChannel =>
    \A i \in Xs(canvas), j \in Ys(canvas) : getColor(h, canvas, i, j)[4] = 255

\* C4: drawCanvas(destination, source, 0, 0) with a fully opaque source of
\* the destination's width and height returns the source's R,G,B at every
\* pixel, and the source's Alpha where both carry an alpha channel.
C4_OpaqueSourceReplaces ==
  (/\ Called("drawCanvas")
   /\ calls[3].offsetX = 0
   /\ calls[3].offsetY = 0
   /\ source.width = input.width
   /\ source.height = input.height
   /\ Opaque(before, source))
  => \A i \in Xs(input), j \in Ys(input) :
       /\ RGBOf(getColor(heap, result, i, j)) = RGBOf(getColor(before, source, i, j))
       /\ (input.hasAlphaChannel /\ source.hasAlphaChannel) =>
            getColor(heap, result, i, j)[4] = getColor(before, source, i, j)[4]

\* C5: drawCanvas changes a destination pixel only if it is the in-bounds
\* target (x + offsetX, y + offsetY) of a source pixel (x, y); the
\* destination's buffer keeps its length.
C5_DrawCanvasClips ==
  Called("drawCanvas") =>
    /\ heap[result.data].length = before[input.data].length
    /\ \A i \in Xs(input), j \in Ys(input) :
         getColor(heap, result, i, j) # getColor(before, input, i, j) =>
           \E x \in Xs(source), y \in Ys(source) :
             x + calls[3].offsetX = i /\ y + calls[3].offsetY = j

\* C6: drawPixel at an in-bounds (x, y) sets R,G,B there to the color's,
\* sets Alpha there to color[3] exactly when the canvas has an alpha channel
\* and the color has 4 elements (else leaves it), and leaves every other
\* pixel as it was.
C6_DrawPixel ==
  (Called("drawPixel") /\ calls[3].x \in Xs(input) /\ calls[3].y \in Ys(input)) =>
    LET c == calls[3]
    IN \A i \in Xs(input), j \in Ys(input) :
         IF i = c.x /\ j = c.y
         THEN /\ RGBOf(getColor(heap, result, i, j)) = RGBOf(c.color)
              /\ input.hasAlphaChannel =>
                   getColor(heap, result, i, j)[4]
                     = IF Len(c.color) = 4 THEN c.color[4]
                       ELSE getColor(before, input, i, j)[4]
         ELSE getColor(heap, result, i, j) = getColor(before, input, i, j)

\* C8: createCanvasFromImageBuffer returns a canvas only when
\* buffer.length = width * height * channels.
C8_BufferValidated ==
  Called("createCanvasFromImageBuffer") => Matches(calls[3])

\* C10: when every source pixel's target lies inside the destination,
\* drawCanvas writes at each target the R,G,B of mergeColors(D, S), D the
\* destination pixel there (alpha 255 without an alpha channel) and S the
\* source pixel with its own alpha (255 without an alpha channel), writes
\* Alpha = mergeAlpha(destAlpha, srcAlpha) when both carry alpha, and writes
\* no alpha byte into a destination without an alpha channel.
Alpha4(color) == IF Len(color) = 4 THEN color ELSE Append(color, 255)

C10_DrawCanvasBlends ==
  (/\ Called("drawCanvas")
   /\ \A x \in Xs(source), y \in Ys(source) :
        /\ x + calls[3].offsetX \in Xs(input)
        /\ y + calls[3].offsetY \in Ys(input))
  => \A x \in Xs(source), y \in Ys(source) :
       LET i == x + calls[3].offsetX
           j == y + calls[3].offsetY
           D == Alpha4(getColor(before, input, i, j))
           S == Alpha4(getColor(before, source, x, y))
           out == getColor(heap, result, i, j)
       IN /\ RGBOf(out) = RGBOf(mergeColors(D, S))
          /\ (input.hasAlphaChannel /\ source.hasAlphaChannel) =>
               out[4] = mergeAlpha(D[4], S[4])
          /\ heap[result.data].length = before[input.data].length

(***************************************************************************)
(* The replaceColor round trip: replaceColor(canvas, X, Y) and then        *)
(* replaceColor(result, Y, X) on the canvas the first call returned.       *)
(***************************************************************************)
ReplaceColorBack ==
  /\ Len(canvases) = 3
  /\ calls[3].op = "replaceColor"
  /\ Return(replaceColor(heap, canvases[3], calls[3].replacer, calls[3].replacee),
            [op |-> "replaceColor", canvas |-> 3,
             replacee |-> calls[3].replacer, replacer |-> calls[3].replacee])

NextRoundTrip ==
  \/ ReplaceColor
  \/ ReplaceColorBack

SpecRoundTrip == Init /\ [][NextRoundTrip]_vars

\* the R,G,B values on the canvas
CanvasColors(h, canvas) ==
  {RGBOf(getColor(h, canvas, i, j)) : i \in Xs(canvas), j \in Ys(canvas)}

\* the round trip is over: X, Y, the canvas it started from and its outcome
RoundTripDone == Len(calls) = 4
original == canvases[calls[3].canvas]
roundTrip == canvases[4]

\* every pixel is X or one background color other than X
OnlyXAndBackground(h, canvas, X) ==
  Cardinality(CanvasColors(h, canvas) \ {RGBOf(X)}) <= 1

SameColorsAndAlpha(h, c1, c2) ==
  \A i \in Xs(c1), j \in Ys(c1) : getColor(h, c1, i, j) = getColor(h, c2, i, j)

\* C7 as claimed: on a canvas of X and one background color B # X, for
\* every color Y, replaceColor(replaceColor(canvas, X, Y), Y, X) has the
\* original's R,G,B and Alpha at every pixel.
C7_RoundTripAnyReplacer ==
  (RoundTripDone /\ OnlyXAndBackground(heap, original, calls[3].replacee))
  => SameColorsAndAlpha(heap, original, roundTrip)

\* C7 as amended: the same, for every color Y that is not the background
\* color of the canvas.
C7_RoundTrip ==
  (/\ RoundTripDone
   /\ OnlyXAndBackground(heap, original, calls[3].replacee)
   /\ RGBOf(calls[3].replacer)
        \notin (CanvasColors(heap, original) \ {RGBOf(calls[3].replacee)}))
  => SameColorsAndAlpha(heap, original, roundTrip)

\* a round trip on a canvas of X and B through a third color Y, in which
\* the first call changed pixels
C7_Witness ==
  /\ RoundTripDone
  /\ Cardinality(CanvasColors(heap, original)) = 2
  /\ RGBOf(calls[3].replacee) \in CanvasColors(heap, original)
  /\ RGBOf(calls[3].replacer) \notin CanvasColors(heap, original)
  /\ ~SameColorsAndAlpha(heap, original, canvases[3])
  /\ original.hasAlphaChannel

(***************************************************************************)
(* The blend functions of utils.js, applied to sampled byte values.        *)
(***************************************************************************)
ByteSamples == {0, 1, 127, 128, 254, 255}

InitBlend ==
  /\ heap = << >>
  /\ canvases = << >>
  /\ calls = << >>
  /\ before = << >>

BlendChannel ==
  /\ calls = << >>
  /\ \E d \in ByteSamples, s \in ByteSamples, da \in ByteSamples, sa \in ByteSamples :
       calls' = <<[op |-> "blendChannel", destChannel |-> d, srcChannel |-> s,
                   destAlpha |-> da, srcAlpha |-> sa,
                   result |-> blendChannel(d, s, da, sa)]>>
  /\ UNCHANGED <<heap, canvases, before>>

MergeAlpha ==
  /\ calls = << >>
  /\ \E da \in ByteSamples, sa \in ByteSamples :
       calls' = <<[op |-> "mergeAlpha", destAlpha |-> da, srcAlpha |-> sa,
                   result |-> mergeAlpha(da, sa)]>>
  /\ UNCHANGED <<heap, canvases, before>>

NextBlend ==
  \/ BlendChannel
  \/ MergeAlpha

SpecBlend == InitBlend /\ [][NextBlend]_vars

\* C9: blendChannel(destChannel, srcChannel, destAlpha, 255) = srcChannel
\* and blendChannel(destChannel, srcChannel, destAlpha, 0) = destChannel,
\* the latter also when destAlpha is 0.
C9_BlendChannelExtremes ==
  (Len(calls) = 1 /\ calls[1].op = "blendChannel") =>
    /\ calls[1].srcAlpha = 255 => calls[1].result = calls[1].srcChannel
    /\ calls[1].srcAlpha = 0 => calls[1].result = calls[1].destChannel

====
